---- MODULE Spec2Model ----
(***************************************************************************)
(* Model of MockMusicAnalysisEngine (src/test_realtime_analysis.py): the   *)
(* streaming tempo / key estimator.                                        *)
(*                                                                         *)
(* Numbers.  The source computes in floating point; the model computes the *)
(* same expressions exactly, on integers:                                  *)
(*   - magnitudes and onset strengths are counted in tenths (0.1 = 1);     *)
(*   - a bpm is the fraction n/d in lowest terms (120.0 = [n=120, d=1]);   *)
(*   - a beat confidence is counted in tenths (0.1 = 1, 1.0 = 10);         *)
(*   - a timestamp is counted in quarter seconds;                          *)
(*   - a chroma value is a numerator over ChromaDen;                       *)
(*   - a key score is (ip + fn/fd) / den, see Score below.                 *)
(* Sequences are 1-based: pitch class p is position p+1, and the source's  *)
(* 0-based index i of a list is position i+1.                              *)
(***************************************************************************)
EXTENDS Integers, Sequences, FiniteSets, TLC

(***************************************************************************)
(* Program constants                                                       *)
(***************************************************************************)
FeatureCap == 100
OnsetCap == 50
MinOnsetCount == 3
DefaultBpm == 120
BpmMin == 60
BpmMax == 200
TickRate == 43
PeakFloor == 1
RelaxedOnsetLen == 10
KeyWindow == 20
RelaxedKeyLen == 15

\* key_profiles, in hundredths
MajorProfile == <<635, 223, 348, 233, 438, 409, 252, 519, 239, 366, 229, 288>>
MinorProfile == <<633, 268, 352, 538, 260, 353, 254, 475, 398, 269, 334, 317>>

key_profiles(mode) == IF mode = "major" THEN MajorProfile ELSE MinorProfile

Modes == <<"major", "minor">>

(***************************************************************************)
(* Bounds of the model                                                     *)
(***************************************************************************)
MaxTicks == 11
MaxChanges == 2
MaxKeyTicks == 20
MaxKeyChanges == 1
MaxGateTicks == 16
MaxGateChanges == 2
MaxLongTicks == 102
MaxLongChanges == 0
MaxApiTicks == 18
MaxApiChanges == 3
MaxApiFrames == 1
MaxTasks == 2
MaxIngestTicks == 5
MaxIngestChanges == 3
MaxStepTicks == 4
MaxStepChanges == 2
MaxRawBpm == 450
MaxPeakTicks == 6
MaxTempoTicks == 29
MaxTempoChanges == 3
MaxWindowTicks == 22
MaxWindowChanges == 1
MaxFifoTicks == 102
MaxFifoVaried == 2
MaxClockTicks == 16
MaxClockChanges == 2
MaxSizeMargin == 40
MaxTransposeTicks == 4
MaxTransposeChanges == 1

(***************************************************************************)
(* Arithmetic helpers                                                      *)
(***************************************************************************)
RECURSIVE SumUpTo(_, _)
SumUpTo(s, n) == IF n = 0 THEN 0 ELSE s[n] + SumUpTo(s, n - 1)

\* sum(s)
SumSeq(s) == CHOOSE r \in { SumUpTo(v, Len(v)) : v \in {s} } : TRUE

RECURSIVE Gcd(_, _)
Gcd(a, b) == IF b = 0 THEN a ELSE Gcd(b, a % b)

Min2(a, b) == IF a < b THEN a ELSE b

\* the fraction n/d (d > 0) in lowest terms
Frac(n, d) == LET g == Gcd(n, d) IN [n |-> n \div g, d |-> d \div g]

(***************************************************************************)
(* Feature frames (MockAudioFeatures).  ChromaDen = lcm(12, 4179): the     *)
(* uniform chroma is 1393/16716 = 1/12 per pitch class and the normalized  *)
(* major profile is 4 * MajorProfile[p] / 16716 = MajorProfile[p] / 41.79. *)
(***************************************************************************)
ChromaDen == 16716

SilentChroma == [p \in 1..12 |-> 0]
UniformChroma == [p \in 1..12 |-> 1393]
MajorChroma == [p \in 1..12 |-> 4 * MajorProfile[p]]

FlatMagnitude == <<5, 5>>
SpikeMagnitude == <<7, 5>>
BumpMagnitude == <<6, 5>>

MockAudioFeatures(chroma, magnitude) == [chroma |-> chroma, magnitude |-> magnitude]

SilentFlat == MockAudioFeatures(SilentChroma, FlatMagnitude)
UniformFlat == MockAudioFeatures(UniformChroma, FlatMagnitude)
MajorFlat == MockAudioFeatures(MajorChroma, FlatMagnitude)
UniformSpike == MockAudioFeatures(UniformChroma, SpikeMagnitude)
UniformBump == MockAudioFeatures(UniformChroma, BumpMagnitude)

\* frames a caller can build that are not well formed: a chroma list of 11
\* values, and a chroma list with a negative value
ShortChroma == [p \in 1..11 |-> 1393]
NegativeChroma == [p \in 1..12 |-> IF p = 1 THEN -1393 ELSE 1393]
ShortFlat == MockAudioFeatures(ShortChroma, FlatMagnitude)
NegativeFlat == MockAudioFeatures(NegativeChroma, FlatMagnitude)

\* the pitch classes: range(12)
PitchClasses == 0..11

\* the normalized major profile with its tonic on pitch class r:
\* chroma[p] = profile[(p - r) mod 12] / sum(profile)
TransposedMajorChroma(r) ==
    [p \in 1..12 |-> 4 * MajorProfile[((p - 1 - r + 12) % 12) + 1]]
TransposedMajorFlat(r) ==
    MockAudioFeatures(TransposedMajorChroma(r), FlatMagnitude)
TransposedFrames ==
    {SilentFlat} \cup { TransposedMajorFlat(r) : r \in PitchClasses }

Frames == {SilentFlat, UniformFlat, UniformSpike}
IngestFrames == {SilentFlat, UniformFlat, ShortFlat, NegativeFlat}
KeyFrames == {SilentFlat, UniformFlat, MajorFlat}
GateFrames == {SilentFlat, UniformFlat}
LongFrames == {SilentFlat, UniformSpike}
ApiStoredFrames == {SilentFlat}
ApiFrames == {SilentFlat, UniformSpike}
PeakFrames == {SilentFlat, UniformSpike, UniformBump}
Timestamps == {0, 5}
KeyTimestamps == {0}
LongTimestamps == {0}
ApiTimestamps == {0, 5}
ClockTimestamps == {0, 5, 15, 19, 31}

(***************************************************************************)
(* State                                                                   *)
(***************************************************************************)
VARIABLES feature_history, onset_strengths, bpm_estimate, has_valid_bpm,
          current_key, beat_result, key_result, ticks, changes,
          pc, frame, analysis_results, uploads, worker, rhythm_data,
          librosa_available, essentia_available, essentia_request

vars == <<feature_history, onset_strengths, bpm_estimate, has_valid_bpm,
          current_key, beat_result, key_result, ticks, changes,
          pc, frame, analysis_results, uploads, worker, rhythm_data,
          librosa_available, essentia_available, essentia_request>>

\* the state of the Essentia analyzer (src/detect/essentia_analyzer.py) and
\* of the /analyze-essentia endpoint in front of it
essentia_vars ==
    <<rhythm_data, librosa_available, essentia_available, essentia_request>>

\* the position and the locals of the loop of run_simulation
loop_vars == <<pc, frame>>

\* the state of the REST service (src/detect/music_api.py)
api_vars == <<analysis_results, uploads, worker>>

(***************************************************************************)
(* Onset detection and history buffers                                     *)
(***************************************************************************)
\* calculate_onset_strength reading feature_history[0] as the previous frame
calculate_onset_strength_first(fh, features) ==
    IF fh = <<>> THEN 0
    ELSE LET previous_features == fh[1]
             n == Min2(Len(features.magnitude), Len(previous_features.magnitude))
             diff(i) == features.magnitude[i] - previous_features.magnitude[i]
         IN  SumSeq([i \in 1..n |-> IF diff(i) > 0 THEN diff(i) ELSE 0])

\* calculate_onset_strength: spectral flux against the last stored frame
calculate_onset_strength(fh, features) ==
    IF fh = <<>> THEN 0
    ELSE LET previous_features == fh[Len(fh)]
             n == Min2(Len(features.magnitude), Len(previous_features.magnitude))
             diff(i) == features.magnitude[i] - previous_features.magnitude[i]
         IN  SumSeq([i \in 1..n |-> IF diff(i) > 0 THEN diff(i) ELSE 0])

\* AppendFeature evicting with pop(): the newest frame goes
AppendFeatureDropNewest(fh, features) ==
    LET a == Append(fh, features)
    IN  IF Len(a) > FeatureCap THEN SubSeq(a, 1, Len(a) - 1) ELSE a

\* run_simulation: feature_history.append, then pop(0) above the capacity
AppendFeature(fh, features) ==
    LET a == Append(fh, features)
    IN  IF Len(a) > FeatureCap THEN Tail(a) ELSE a

\* AppendOnset evicting as soon as the capacity is reached
AppendOnsetEarly(os, onset_strength) ==
    LET a == Append(os, onset_strength)
    IN  IF Len(a) >= OnsetCap THEN Tail(a) ELSE a

\* analyze_beat: onset_strengths.append, then pop(0) above the capacity
AppendOnset(os, onset_strength) ==
    LET a == Append(os, onset_strength)
    IN  IF Len(a) > OnsetCap THEN Tail(a) ELSE a

(***************************************************************************)
(* Beat tracking                                                           *)
(***************************************************************************)
Bpm(n) == [n |-> n, d |-> 1]

NoBeat == [kind |-> "none", bpm |-> Bpm(0), confidence |-> 0,
           beat_position |-> 0, measure_position |-> 0]

\* an exception leaving track_beats (ZeroDivisionError)
BeatRaised == [kind |-> "raised", bpm |-> Bpm(0), confidence |-> 0,
               beat_position |-> 0, measure_position |-> 0]

BeatInfo(bpm, confidence, beat_position, measure_position) ==
    [kind |-> "estimate", bpm |-> bpm, confidence |-> confidence,
     beat_position |-> beat_position, measure_position |-> measure_position]

\* ColdStartHold reporting confidence 0.0
ColdStartHoldNoConfidence(bpm) == BeatInfo(bpm, 0, 0, 1)

\* the dictionary returned while fewer than 3 onset samples are held
ColdStartHold(bpm) == BeatInfo(bpm, 1, 0, 1)

\* current_time % 1.0, in quarters
BeatPosition(current_time) == current_time % 4

\* MeasurePosition without the modulo: int(current_time) + 1
MeasurePositionUnwrapped(current_time) == (current_time \div 4) + 1

\* int(current_time % 4) + 1
MeasurePosition(current_time) == ((current_time % 16) \div 4) + 1

\* StickyHold reporting the default tempo instead of the sticky one
StickyHoldDefault(bpm, current_time) ==
    BeatInfo(Bpm(DefaultBpm), 1, BeatPosition(current_time),
             MeasurePosition(current_time))

\* the dictionary returned when no tempo qualifies
StickyHold(bpm, current_time) ==
    BeatInfo(bpm, 1, BeatPosition(current_time), MeasurePosition(current_time))

\* IsPeak with >= against the right neighbour
IsPeakPlateau(os, i) ==
    /\ os[i + 1] > os[i]
    /\ os[i + 1] >= os[i + 2]
    /\ os[i + 1] > PeakFloor

\* the peak test of track_beats at the 0-based index i
IsPeak(os, i) ==
    /\ os[i + 1] > os[i]
    /\ os[i + 1] > os[i + 2]
    /\ os[i + 1] > PeakFloor

\* the peak loop: 0-based indices range(1, len - 1), in increasing order
FindPeaks(os) ==
    LET Test(i) == IsPeak(os, i)
    IN  SelectSeq([k \in 1..(Len(os) - 2) |-> k], Test)

PeakIntervals(peaks) == [k \in 1..(Len(peaks) - 1) |-> peaks[k + 1] - peaks[k]]

\* EnoughPeaks accepting a single peak
EnoughPeaksOne(peaks) == Len(peaks) > 0

\* if len(peaks) > 1
EnoughPeaks(peaks) == Len(peaks) > 1

\* BpmInRange without the upper limit
BpmInRangeNoUpper(bpm) == BpmMin * bpm.d <= bpm.n

\* if 60 <= estimated_bpm <= 200
BpmInRange(bpm) == BpmMin * bpm.d <= bpm.n /\ bpm.n <= BpmMax * bpm.d

\* PeakConfidence dividing in integers: len(peaks) // 10
PeakConfidenceFloored(peaks) == 10 * Min2(1, Len(peaks) \div 10)

\* min(1.0, len(peaks) / 10.0), in tenths
PeakConfidence(peaks) == Min2(10, Len(peaks))

\* track_beats once the peaks are found; a division by zero raises
TrackPeaks(peaks, current_time, sticky_bpm) ==
    LET intervals == PeakIntervals(peaks)
    IN  IF EnoughPeaks(peaks)
        THEN IF Len(intervals) = 0 \/ SumSeq(intervals) = 0
             THEN BeatRaised
             ELSE LET estimated_bpm ==
                          Frac(60 * TickRate * Len(intervals), SumSeq(intervals))
                  IN  IF BpmInRange(estimated_bpm)
                      THEN BeatInfo(estimated_bpm, PeakConfidence(peaks),
                                    BeatPosition(current_time),
                                    MeasurePosition(current_time))
                      ELSE StickyHold(sticky_bpm, current_time)
        ELSE StickyHold(sticky_bpm, current_time)

track_beats(os, current_time, sticky_bpm) ==
    IF Len(os) < 3 THEN ColdStartHold(sticky_bpm)
    ELSE CHOOSE r \in { TrackPeaks(peaks, current_time, sticky_bpm) :
                            peaks \in {FindPeaks(os)} } : TRUE

\* AdoptionBranch with the primary threshold at 0.1 instead of 0.01
AdoptionBranchTenth(beat_info, onset_count) ==
    IF beat_info.bpm.n > 0 /\ beat_info.confidence > 1 THEN 1
    ELSE IF beat_info.bpm.n > 0 /\ onset_count > RelaxedOnsetLen THEN 2
    ELSE 0

\* the adoption test of analyze_beat: 0 = not adopted, 1 = first branch,
\* 2 = relaxed branch
AdoptionBranch(beat_info, onset_count) ==
    IF beat_info.bpm.n > 0 /\ beat_info.confidence * 10 > 1 THEN 1
    ELSE IF beat_info.bpm.n > 0 /\ onset_count > RelaxedOnsetLen THEN 2
    ELSE 0

\* AdoptBeat returning the result without writing bpm_estimate
AdoptBeatKeepSticky(os1, sticky_bpm, valid_bpm, beat_info) ==
    [onset_strengths |-> os1, bpm_estimate |-> sticky_bpm,
     has_valid_bpm |-> valid_bpm, result |-> beat_info]

\* analyze_beat after track_beats returned beat_info: adopt and return
AdoptBeat(os1, sticky_bpm, valid_bpm, beat_info) ==
    IF beat_info.kind = "raised"
    THEN [onset_strengths |-> os1, bpm_estimate |-> sticky_bpm,
          has_valid_bpm |-> valid_bpm, result |-> beat_info]
    ELSE IF AdoptionBranch(beat_info, Len(os1)) > 0
    THEN [onset_strengths |-> os1, bpm_estimate |-> beat_info.bpm,
          has_valid_bpm |-> TRUE, result |-> beat_info]
    ELSE [onset_strengths |-> os1, bpm_estimate |-> sticky_bpm,
          has_valid_bpm |-> valid_bpm, result |-> beat_info]

\* analyze_beat once the onset sample is stored (os1)
BeatAfterOnset(os1, sticky_bpm, valid_bpm, current_time) ==
    IF Len(os1) < MinOnsetCount
    THEN [onset_strengths |-> os1, bpm_estimate |-> sticky_bpm,
          has_valid_bpm |-> valid_bpm, result |-> ColdStartHold(sticky_bpm)]
    ELSE CHOOSE r \in { AdoptBeat(os1, sticky_bpm, valid_bpm, beat_info) :
                            beat_info \in {track_beats(os1, current_time, sticky_bpm)} } : TRUE

\* analyze_beat, called with the feature history fh as it is at the call
analyze_beat(fh, os, sticky_bpm, valid_bpm, features, current_time) ==
    CHOOSE r \in { BeatAfterOnset(os1, sticky_bpm, valid_bpm, current_time) :
                       os1 \in {AppendOnset(os, calculate_onset_strength(fh, features))} } : TRUE

(***************************************************************************)
(* Key estimation.  A weighted chroma is [num, den]: the value of pitch    *)
(* class p is num[p+1] / den.  A score is [ip, fn, fd, den] and stands for *)
(* (ip + fn/fd) / den with 0 <= fn < fd, which keeps every intermediate    *)
(* product inside 32 bits.                                                 *)
(***************************************************************************)
NoKey == [kind |-> "none"]

\* an exception leaving analyze_key (IndexError on a short chroma list)
KeyRaised == [kind |-> "raised"]

\* KeyThreshold at 0.125
KeyThresholdEighth == [n |-> 1, d |-> 8]

\* key_confidence_threshold = 0.05
KeyThreshold == [n |-> 1, d |-> 20]

\* key_confidence_threshold * 0.5
RelaxedThreshold == [n |-> KeyThreshold.n, d |-> 2 * KeyThreshold.d]

\* RecentFeatures taking the whole feature history
RecentFeaturesAll(fh) == fh

\* the recent window: feature_history[-min(20, len):]
RecentFeatures(fh) ==
    LET recent_feature_count == Min2(KeyWindow, Len(fh))
    IN  SubSeq(fh, Len(fh) - recent_feature_count + 1, Len(fh))

\* the accumulation loop: weight (index + 1) / len(recent_features)
WeightedSum(recent) ==
    [num |-> [p \in 1..12 |->
                 SumSeq([i \in 1..Len(recent) |-> i * recent[i].chroma[p]])],
     den |-> Len(recent) * ChromaDen]

\* total_weight, the sum of the weights, as a fraction n/d
TotalWeight(recent) ==
    [n |-> SumSeq([i \in 1..Len(recent) |-> i]), d |-> Len(recent)]

\* NormalizeChroma leaving the weighted sum as it is
NormalizeChromaSkipped(wc, total_weight) == wc

\* if total_weight > 0: weighted_chroma = [c / total_weight ...]
NormalizeChroma(wc, total_weight) ==
    IF total_weight.n > 0
    THEN [num |-> wc.num, den |-> (wc.den \div total_weight.d) * total_weight.n]
    ELSE wc

\* calculate_fast_key_score; root is the 0-based pitch class
calculate_fast_key_score(chroma, root, mode) ==
    LET profile == key_profiles(mode)
        profile_sum == SumSeq(profile)
        correlation ==
            SumSeq([i \in 1..12 |-> chroma.num[i] * profile[((i - 1 + root) % 12) + 1]])
        tonic == chroma.num[root + 1]
    IN  IF profile_sum > 0
        THEN LET f == 5 * (correlation % profile_sum) + profile_sum * (tonic % 5)
             IN  [ip |-> (correlation \div profile_sum) + (tonic \div 5)
                            + (f \div (5 * profile_sum)),
                  fn |-> f % (5 * profile_sum),
                  fd |-> 5 * profile_sum,
                  den |-> chroma.den]
        ELSE [ip |-> tonic \div 5, fn |-> tonic % 5, fd |-> 5, den |-> chroma.den]

\* a < b, for two scores over the same den
ScoreLess(a, b) ==
    \/ a.ip < b.ip
    \/ a.ip = b.ip /\ a.fn * b.fd < b.fn * a.fd

\* s >= n/d
ScoreGeq(s, n, d) ==
    LET r == n * s.den - d * s.ip
    IN  IF r <= 0 THEN TRUE
        ELSE IF r >= d THEN FALSE
        ELSE d * s.fn >= r * s.fd

\* s > n/d
ScoreGt(s, n, d) ==
    LET r == n * s.den - d * s.ip
    IN  IF r < 0 THEN TRUE
        ELSE IF r >= d THEN FALSE
        ELSE d * s.fn > r * s.fd

\* the 24 hypotheses in the order the loops build them
KeyScores(weighted_chroma) ==
    [k \in 1..24 |->
        LET root == (k - 1) \div 2
            mode == Modes[((k - 1) % 2) + 1]
        IN  [root |-> root, mode |-> mode,
             score |-> calculate_fast_key_score(weighted_chroma, root, mode)]]

\* BestKey after an ascending sort: the first of the lowest-scoring ones
BestKeyAscending(key_scores) ==
    LET k == CHOOSE k \in 1..Len(key_scores) :
                 /\ \A j \in 1..Len(key_scores) :
                        ~ScoreLess(key_scores[j].score, key_scores[k].score)
                 /\ \A j \in 1..(k - 1) :
                        ScoreLess(key_scores[k].score, key_scores[j].score)
    IN  key_scores[k]

\* key_scores.sort(reverse=True) then key_scores[0]: the sort is stable, so
\* the first of the highest-scoring hypotheses
BestKey(key_scores) ==
    LET k == CHOOSE k \in 1..Len(key_scores) :
                 /\ \A j \in 1..Len(key_scores) :
                        ~ScoreLess(key_scores[k].score, key_scores[j].score)
                 /\ \A j \in 1..(k - 1) :
                        ScoreLess(key_scores[j].score, key_scores[k].score)
    IN  key_scores[k]

\* PrimaryAccept with a threshold of 0
PrimaryAcceptZero(best_score) == ScoreGeq(best_score, 0, 1)

\* if best_score >= self.key_confidence_threshold
PrimaryAccept(best_score) == ScoreGeq(best_score, KeyThreshold.n, KeyThreshold.d)

\* RelaxedAccept from 15 frames on
RelaxedAcceptEarly(history_len, best_score) ==
    /\ history_len >= RelaxedKeyLen
    /\ ScoreGt(best_score, RelaxedThreshold.n, RelaxedThreshold.d)

\* if len(feature_history) > 15 and best_score > threshold * 0.5
RelaxedAccept(history_len, best_score) ==
    /\ history_len > RelaxedKeyLen
    /\ ScoreGt(best_score, RelaxedThreshold.n, RelaxedThreshold.d)

\* a published key; the confidence is score * mul.n / mul.d
KeyInfo(best_key, mul_n, mul_d) ==
    [kind |-> "key", root |-> best_key.root, mode |-> best_key.mode,
     confidence |-> [score |-> best_key.score, mul |-> [n |-> mul_n, d |-> mul_d]]]

\* AcceptKey publishing the best hypothesis whatever its score
AcceptKeyAny(history_len, best_key) == KeyInfo(best_key, 1, 1)

\* the acceptance policy of analyze_key on the best hypothesis
AcceptKey(history_len, best_key) ==
    IF PrimaryAccept(best_key.score) THEN KeyInfo(best_key, 1, 1)
    ELSE IF RelaxedAccept(history_len, best_key.score)
         THEN KeyInfo(best_key, 4, 5)
         ELSE NoKey

\* weighted_chroma of analyze_key for the feature history fh
WeightedChroma(fh) ==
    CHOOSE wc \in { NormalizeChroma(WeightedSum(recent), TotalWeight(recent)) :
                        recent \in {RecentFeatures(fh)} } : TRUE

analyze_key(fh) ==
    IF Len(fh) < 1 THEN NoKey
    ELSE IF \E i \in 1..Len(RecentFeatures(fh)) : Len(RecentFeatures(fh)[i].chroma) < 12
    THEN KeyRaised
    ELSE CHOOSE r \in { AcceptKey(Len(fh), best_key) :
                            best_key \in { BestKey(key_scores) :
                                key_scores \in { KeyScores(weighted_chroma) :
                                    weighted_chroma \in {WeightedChroma(fh)} } } } : TRUE

(***************************************************************************)
(* The engine                                                              *)
(***************************************************************************)
\* no frame is being processed
NoFrame == [kind |-> "none"]

\* the task ids uuid4 can hand out
TaskIds == 1..MaxTasks

\* a task id that is not a key of analysis_results
Absent == [status |-> "absent", progress |-> 0, result |-> "none", error |-> "none"]

\* analysis_results = {}
NoTasks == [t \in TaskIds |-> Absent]

\* no rhythm analysis was returned yet
NoRhythm == [kind |-> "none"]

\* no request to /analyze-essentia answered yet
NoRequest == [kind |-> "none"]

Init ==
    /\ feature_history = <<>>
    /\ onset_strengths = <<>>
    /\ bpm_estimate = Bpm(DefaultBpm)
    /\ has_valid_bpm = TRUE
    /\ current_key = NoKey
    /\ beat_result = NoBeat
    /\ key_result = NoKey
    /\ ticks = 0
    /\ changes = 0
    /\ pc = "idle"
    /\ frame = NoFrame
    /\ analysis_results = NoTasks
    /\ uploads = {}
    /\ worker = [t \in TaskIds |-> "unborn"]
    /\ rhythm_data = NoRhythm
    /\ librosa_available = TRUE
    /\ essentia_available = TRUE
    /\ essentia_request = NoRequest

\* the frame differs from the one ingested before it
IsChange(features) ==
    feature_history # <<>> /\ features # feature_history[Len(feature_history)]

\* one iteration of the loop of run_simulation on the frame `features`
\* stamped current_time: store the frame, analyze_beat, analyze_key.  An
\* exception in analyze_beat ends the loop before analyze_key.
Tick(features, current_time) ==
    /\ beat_result.kind # "raised"
    /\ key_result.kind # "raised"
    /\ \E fh1 \in {AppendFeature(feature_history, features)} :
       \E beat \in {analyze_beat(fh1, onset_strengths, bpm_estimate,
                                 has_valid_bpm, features, current_time)} :
           /\ feature_history' = fh1
           /\ onset_strengths' = beat.onset_strengths
           /\ bpm_estimate' = beat.bpm_estimate
           /\ has_valid_bpm' = beat.has_valid_bpm
           /\ beat_result' = beat.result
           /\ key_result' = IF beat.result.kind = "raised" THEN key_result
                            ELSE analyze_key(fh1)
    /\ ticks' = ticks + 1
    /\ changes' = changes + (IF IsChange(features) THEN 1 ELSE 0)
    /\ UNCHANGED <<current_key, loop_vars, api_vars, essentia_vars>>

\* a session of at most MaxTicks frames that change at most MaxChanges times
Next ==
    \E features \in Frames, current_time \in Timestamps :
        /\ ticks < MaxTicks
        /\ IsChange(features) => changes < MaxChanges
        /\ Tick(features, current_time)

Spec == Init /\ [][Next]_vars

\* a session of frames that differ in their chroma only, as long as the key
\* window
NextKey ==
    \E features \in KeyFrames, current_time \in KeyTimestamps :
        /\ ticks < MaxKeyTicks
        /\ IsChange(features) => changes < MaxKeyChanges
        /\ Tick(features, current_time)

SpecKey == Init /\ [][NextKey]_vars

\* a session of silent and uniform frames, past the relaxed-acceptance length
NextGate ==
    \E features \in GateFrames, current_time \in KeyTimestamps :
        /\ ticks < MaxGateTicks
        /\ IsChange(features) => changes < MaxGateChanges
        /\ Tick(features, current_time)

SpecGate == Init /\ [][NextGate]_vars

\* a session longer than the key window, whose frames change once
NextWindow ==
    \E features \in KeyFrames, current_time \in KeyTimestamps :
        /\ ticks < MaxWindowTicks
        /\ IsChange(features) => changes < MaxWindowChanges
        /\ Tick(features, current_time)

SpecWindow == Init /\ [][NextWindow]_vars

\* a short session of frames carrying the major profile in any of the 12
\* transpositions
NextTranspose ==
    \E features \in TransposedFrames, current_time \in KeyTimestamps :
        /\ ticks < MaxTransposeTicks
        /\ IsChange(features) => changes < MaxTransposeChanges
        /\ Tick(features, current_time)

SpecTranspose == Init /\ [][NextTranspose]_vars

\* a long session over two frames, past both capacities
NextLong ==
    \E features \in LongFrames, current_time \in LongTimestamps :
        /\ ticks < MaxLongTicks
        /\ IsChange(features) => changes < MaxLongChanges
        /\ Tick(features, current_time)

SpecLong == Init /\ [][NextLong]_vars

\* a session fed by a caller that also hands in malformed frames
NextIngest ==
    \E features \in IngestFrames, current_time \in KeyTimestamps :
        /\ ticks < MaxIngestTicks
        /\ IsChange(features) => changes < MaxIngestChanges
        /\ Tick(features, current_time)

SpecIngest == Init /\ [][NextIngest]_vars

(***************************************************************************)
(* The loop of run_simulation statement by statement, as a thread that     *)
(* reads the engine's fields meanwhile would see it.  The engine takes no  *)
(* lock and publishes no snapshot: each step writes the fields in place.   *)
(***************************************************************************)
LoopFrame(features, current_time) ==
    [kind |-> "frame", features |-> features, current_time |-> current_time]

\* lines 282-287: the frame is generated and stored in feature_history
StepStore(features, current_time) ==
    /\ pc = "idle"
    /\ beat_result.kind # "raised"
    /\ key_result.kind # "raised"
    /\ feature_history' = AppendFeature(feature_history, features)
    /\ frame' = LoopFrame(features, current_time)
    /\ pc' = "analyze_beat"
    /\ changes' = changes + (IF IsChange(features) THEN 1 ELSE 0)
    /\ UNCHANGED <<onset_strengths, bpm_estimate, has_valid_bpm, current_key,
                   beat_result, key_result, ticks, api_vars, essentia_vars>>

\* lines 73-80: analyze_beat computes and stores the onset sample
StepOnset ==
    /\ pc = "analyze_beat"
    /\ onset_strengths' =
           AppendOnset(onset_strengths,
                       calculate_onset_strength(feature_history, frame.features))
    /\ pc' = "track_beats"
    /\ UNCHANGED <<feature_history, bpm_estimate, has_valid_bpm, current_key,
                   beat_result, key_result, ticks, changes, frame, api_vars,
                   essentia_vars>>

\* lines 85-110 and 290: the rest of analyze_beat, and its result assigned;
\* an exception ends the loop
StepTrack ==
    /\ pc = "track_beats"
    /\ \E beat \in {BeatAfterOnset(onset_strengths, bpm_estimate, has_valid_bpm,
                                   frame.current_time)} :
           /\ bpm_estimate' = beat.bpm_estimate
           /\ has_valid_bpm' = beat.has_valid_bpm
           /\ beat_result' = beat.result
           /\ pc' = IF beat.result.kind = "raised" THEN "idle" ELSE "analyze_key"
           /\ frame' = IF beat.result.kind = "raised" THEN NoFrame ELSE frame
           /\ ticks' = IF beat.result.kind = "raised" THEN ticks + 1 ELSE ticks
    /\ UNCHANGED <<feature_history, onset_strengths, current_key, key_result,
                   changes, api_vars, essentia_vars>>

\* line 293: analyze_key, and its result assigned; the iteration is over
StepKey ==
    /\ pc = "analyze_key"
    /\ key_result' = analyze_key(feature_history)
    /\ pc' = "idle"
    /\ frame' = NoFrame
    /\ ticks' = ticks + 1
    /\ UNCHANGED <<feature_history, onset_strengths, bpm_estimate, has_valid_bpm,
                   current_key, beat_result, changes, api_vars, essentia_vars>>

NextStep ==
    \/ \E features \in Frames, current_time \in KeyTimestamps :
           /\ ticks < MaxStepTicks
           /\ IsChange(features) => changes < MaxStepChanges
           /\ StepStore(features, current_time)
    \/ StepOnset
    \/ StepTrack
    \/ StepKey

SpecStep == Init /\ [][NextStep]_vars

(***************************************************************************)
(* The methods of the engine called one at a time by a client, the way a   *)
(* unit test drives them: the frame given to analyze_beat need not have    *)
(* been stored in feature_history.                                         *)
(***************************************************************************)
\* feature_history.append(features) with the capacity check, alone, before
\* the first call of analyze_beat
ApiAppend(features) ==
    /\ ticks = 0
    /\ Len(feature_history) < MaxApiFrames
    /\ feature_history' = AppendFeature(feature_history, features)
    /\ UNCHANGED <<onset_strengths, bpm_estimate, has_valid_bpm, current_key,
                   beat_result, key_result, ticks, changes,
                   loop_vars, api_vars, essentia_vars>>

\* engine.analyze_beat(features)
AnalyzeBeatCall(features, current_time) ==
    /\ beat_result.kind # "raised"
    /\ \E beat \in {analyze_beat(feature_history, onset_strengths, bpm_estimate,
                                 has_valid_bpm, features, current_time)} :
           /\ onset_strengths' = beat.onset_strengths
           /\ bpm_estimate' = beat.bpm_estimate
           /\ has_valid_bpm' = beat.has_valid_bpm
           /\ beat_result' = beat.result
    /\ ticks' = ticks + 1
    /\ changes' = changes + (IF IsChange(features) THEN 1 ELSE 0)
    /\ UNCHANGED <<feature_history, current_key, key_result,
                   loop_vars, api_vars, essentia_vars>>

\* engine.analyze_beat(features), within the bounds of SpecApi
ApiAnalyzeBeat(features, current_time) ==
    /\ ticks < MaxApiTicks
    /\ IsChange(features) => changes < MaxApiChanges
    /\ AnalyzeBeatCall(features, current_time)

\* engine.analyze_key()
ApiAnalyzeKey ==
    /\ key_result' = analyze_key(feature_history)
    /\ UNCHANGED <<feature_history, onset_strengths, bpm_estimate, has_valid_bpm,
                   current_key, beat_result, ticks, changes,
                   loop_vars, api_vars, essentia_vars>>

NextApi ==
    \/ \E features \in ApiStoredFrames : ApiAppend(features)
    \/ \E features \in ApiFrames, current_time \in ApiTimestamps :
           ApiAnalyzeBeat(features, current_time)
    \/ ApiAnalyzeKey

SpecApi == Init /\ [][NextApi]_vars

\* a short series of analyze_beat calls on frames whose flux against the
\* stored frame is 0, 0.1 (the salience floor) or 0.2
NextPeak ==
    \/ \E features \in ApiStoredFrames : ApiAppend(features)
    \/ \E features \in PeakFrames, current_time \in KeyTimestamps :
           /\ ticks < MaxPeakTicks
           /\ ApiAnalyzeBeat(features, current_time)

SpecPeak == Init /\ [][NextPeak]_vars

\* a series of analyze_beat calls long enough for three peaks whose tempo is
\* in range
NextTempo ==
    \/ \E features \in ApiStoredFrames : ApiAppend(features)
    \/ \E features \in ApiFrames, current_time \in KeyTimestamps :
           /\ ticks < MaxTempoTicks
           /\ IsChange(features) => changes < MaxTempoChanges
           /\ AnalyzeBeatCall(features, current_time)

SpecTempo == Init /\ [][NextTempo]_vars

\* analyze_beat calls on frames stamped anywhere in the first 8 seconds
NextClock ==
    \/ \E features \in ApiStoredFrames : ApiAppend(features)
    \/ \E features \in ApiFrames, current_time \in ClockTimestamps :
           /\ ticks < MaxClockTicks
           /\ IsChange(features) => changes < MaxClockChanges
           /\ AnalyzeBeatCall(features, current_time)

SpecClock == Init /\ [][NextClock]_vars

\* a session past both capacities: loop iterations and direct analyze_beat
\* calls on frames that vary during the first steps and repeat afterwards
NextFifo ==
    \/ \E features \in ApiFrames, current_time \in KeyTimestamps :
           /\ ticks < MaxFifoTicks
           /\ IsChange(features) => ticks < MaxFifoVaried
           /\ Tick(features, current_time)
    \/ \E features \in ApiFrames, current_time \in KeyTimestamps :
           /\ ticks < MaxFifoVaried
           /\ AnalyzeBeatCall(features, current_time)

SpecFifo == Init /\ [][NextFifo]_vars

(***************************************************************************)
(* The REST service (src/detect/music_api.py).  analysis_results maps a    *)
(* task id to its record, uploads is the set of task ids whose file is in  *)
(* UPLOAD_DIR, and worker[t] is the position of the background task of t:  *)
(* "unborn" (id not handed out), "unsaved" (the upload failed), "queued",   *)
(* the line about to run ("l155" ...), "returned", or "raised" when an      *)
(* exception left process_audio_analysis_sync.  The handlers run on the    *)
(* event loop, one at a time; the workers run in threads of their own      *)
(* (asyncio.to_thread) and interleave with them statement by statement.    *)
(* The updated_at stamps are not modelled.                                 *)
(***************************************************************************)
\* task_id in analysis_results
HasTask(t) == analysis_results[t] # Absent

\* the record upload_audio creates
NewTask == [status |-> "processing", progress |-> 0, result |-> "none",
            error |-> "none"]

\* upload_audio, accepted: the file is saved, the record created and the
\* background task added.  (A request with a wrong content type is answered
\* 400 before anything is written.)
UploadAudio(t) ==
    /\ worker[t] = "unborn"
    /\ uploads' = uploads \cup {t}
    /\ analysis_results' = [analysis_results EXCEPT ![t] = NewTask]
    /\ worker' = [worker EXCEPT ![t] = "queued"]

\* upload_audio, the save fails (500): open() fails and leaves nothing, or
\* the copy fails after open() created the file
UploadSaveFailed(t, created) ==
    /\ worker[t] = "unborn"
    /\ uploads' = IF created THEN uploads \cup {t} ELSE uploads
    /\ worker' = [worker EXCEPT ![t] = "unsaved"]
    /\ UNCHANGED analysis_results

\* delete_analysis_task: the file and the record are removed
DeleteTask(t) ==
    /\ HasTask(t)
    /\ uploads' = uploads \ {t}
    /\ analysis_results' = [analysis_results EXCEPT ![t] = Absent]
    /\ UNCHANGED worker

\* a statement analysis_results[task_id][field] = value of the try block at
\* position from: a KeyError (the record is gone) enters the except block
SetInTry(t, from, field, value, to) ==
    /\ worker[t] = from
    /\ IF HasTask(t)
       THEN /\ analysis_results' = [analysis_results EXCEPT ![t][field] = value]
            /\ worker' = [worker EXCEPT ![t] = to]
       ELSE /\ worker' = [worker EXCEPT ![t] = "l197"]
            /\ UNCHANGED analysis_results
    /\ UNCHANGED uploads

\* a statement analysis_results[task_id][field] = value of the except block:
\* a KeyError leaves the function
SetInExcept(t, from, field, value, to) ==
    /\ worker[t] = from
    /\ IF HasTask(t)
       THEN /\ analysis_results' = [analysis_results EXCEPT ![t][field] = value]
            /\ worker' = [worker EXCEPT ![t] = to]
       ELSE /\ worker' = [worker EXCEPT ![t] = "raised"]
            /\ UNCHANGED analysis_results
    /\ UNCHANGED uploads

L148(t) == SetInTry(t, "queued", "progress", 10, "l155")
L155(t) == SetInTry(t, "l155", "progress", 20, "l158")

\* analyzer.load_audio(file_path): raises when the file is gone, and may
\* raise on a file it cannot decode
L158(t, ok) ==
    /\ worker[t] = "l158"
    /\ worker' = [worker EXCEPT ![t] = IF ok /\ t \in uploads THEN "l161" ELSE "l197"]
    /\ UNCHANGED <<analysis_results, uploads>>

L161(t) == SetInTry(t, "l161", "progress", 30, "l164")

\* analyzer.real_time_analysis(segment_duration): returns or raises
L164(t, ok) ==
    /\ worker[t] = "l164"
    /\ worker' = [worker EXCEPT ![t] = IF ok THEN "l167" ELSE "l197"]
    /\ UNCHANGED <<analysis_results, uploads>>

L167(t) == SetInTry(t, "l167", "progress", 80, "l170")

\* result = {...}: reads analysis_results[task_id]["filename"]
L170(t) ==
    /\ worker[t] = "l170"
    /\ worker' = [worker EXCEPT ![t] = IF HasTask(t) THEN "l191" ELSE "l197"]
    /\ UNCHANGED <<analysis_results, uploads>>

L191(t) == SetInTry(t, "l191", "status", "completed", "l192")
L192(t) == SetInTry(t, "l192", "progress", 100, "l193")
L193(t) == SetInTry(t, "l193", "result", "result", "l194")

\* the last updated_at stamp of the try block
L194(t) ==
    /\ worker[t] = "l194"
    /\ worker' = [worker EXCEPT ![t] = IF HasTask(t) THEN "returned" ELSE "l197"]
    /\ UNCHANGED <<analysis_results, uploads>>

\* L197 leaving the status as it is
L197Silent(t) == SetInExcept(t, "l197", "error", "error", "l198")

\* except Exception: analysis_results[task_id]["status"] = "failed"
L197(t) == SetInExcept(t, "l197", "status", "failed", "l198")

L198(t) == SetInExcept(t, "l198", "error", "error", "l202")

\* if os.path.exists(file_path): os.remove(file_path)
L202(t) ==
    /\ worker[t] = "l202"
    /\ uploads' = uploads \ {t}
    /\ worker' = [worker EXCEPT ![t] = "returned"]
    /\ UNCHANGED analysis_results

\* one statement of process_audio_analysis_sync for task t
WorkerStep(t) ==
    \/ L148(t) \/ L155(t) \/ L161(t) \/ L167(t) \/ L170(t)
    \/ \E ok \in BOOLEAN : L158(t, ok)
    \/ \E ok \in BOOLEAN : L164(t, ok)
    \/ L191(t) \/ L192(t) \/ L193(t) \/ L194(t)
    \/ L197(t) \/ L198(t) \/ L202(t)

\* the service does not touch the engine or the Essentia analysis
ServiceOnly ==
    UNCHANGED <<feature_history, onset_strengths, bpm_estimate, has_valid_bpm,
                current_key, beat_result, key_result, ticks, changes,
                loop_vars, essentia_vars>>

NextTasks ==
    \/ \E t \in TaskIds : UploadAudio(t) /\ ServiceOnly
    \/ \E t \in TaskIds, created \in BOOLEAN :
           UploadSaveFailed(t, created) /\ ServiceOnly
    \/ \E t \in TaskIds : DeleteTask(t) /\ ServiceOnly
    \/ \E t \in TaskIds : WorkerStep(t) /\ ServiceOnly

\* every background task that was added is run to its end: the thread pool
\* schedules each worker as long as it has a statement to run
SpecTasks ==
    Init /\ [][NextTasks]_vars /\ \A t \in TaskIds : WF_api_vars(WorkerStep(t))

(***************************************************************************)
(* The rhythm analysis of EssentiaAnalyzer (src/detect/essentia_analyzer   *)
(* .py).  The tempo Essentia's RhythmExtractor2013 or librosa's beat_track *)
(* measures is an input: a whole number of beats per minute.               *)
(***************************************************************************)
RawBpms == 0..MaxRawBpm

\* a < b, for two fractions
FracLess(a, b) == a.n * b.d < b.n * a.d

\* 60 <= bpm <= 200
ValidRange(bpm) == ~FracLess(bpm, Bpm(BpmMin)) /\ ~FracLess(Bpm(BpmMax), bpm)

\* max(60, min(200, bpm))
ClampBpm(bpm) ==
    LET m == IF FracLess(Bpm(BpmMax), bpm) THEN Bpm(BpmMax) ELSE bpm
    IN  IF FracLess(m, Bpm(BpmMin)) THEN Bpm(BpmMin) ELSE m

\* _validate_bpm: double or halve once, then clamp
validate_bpm(bpm) ==
    IF FracLess(bpm, Bpm(BpmMin)) \/ FracLess(Bpm(BpmMax), bpm)
    THEN LET adjusted_bpm == IF FracLess(bpm, Bpm(BpmMin))
                             THEN Frac(2 * bpm.n, bpm.d)
                             ELSE Frac(bpm.n, 2 * bpm.d)
         IN  IF ValidRange(adjusted_bpm) THEN adjusted_bpm ELSE ClampBpm(bpm)
    ELSE ClampBpm(bpm)

RhythmData(bpm, analysis_engine) ==
    [kind |-> "result", bpm |-> bpm, analysis_engine |-> analysis_engine]

\* the import of the module: librosa is installed or it is not
InitEssentia ==
    /\ feature_history = <<>>
    /\ onset_strengths = <<>>
    /\ bpm_estimate = Bpm(DefaultBpm)
    /\ has_valid_bpm = TRUE
    /\ current_key = NoKey
    /\ beat_result = NoBeat
    /\ key_result = NoKey
    /\ ticks = 0
    /\ changes = 0
    /\ pc = "idle"
    /\ frame = NoFrame
    /\ analysis_results = NoTasks
    /\ uploads = {}
    /\ worker = [t \in TaskIds |-> "unborn"]
    /\ rhythm_data = NoRhythm
    /\ librosa_available \in BOOLEAN
    /\ essentia_available = TRUE
    /\ essentia_request = NoRequest

\* the analyzer does not touch the engine or the service
AnalyzerOnly ==
    UNCHANGED <<feature_history, onset_strengths, bpm_estimate, has_valid_bpm,
                current_key, beat_result, key_result, ticks, changes,
                loop_vars, api_vars, librosa_available, essentia_available,
                essentia_request>>

\* analyze_bpm_and_beats, the try block succeeds: Essentia measured bpm
EssentiaRhythm(bpm) ==
    /\ rhythm_data' = RhythmData(validate_bpm(Bpm(bpm)), "essentia")
    /\ AnalyzerOnly

\* Essentia raised and librosa is not installed
FallbackUnavailable ==
    /\ ~librosa_available
    /\ rhythm_data' = RhythmData(Bpm(DefaultBpm), "fallback_unavailable")
    /\ AnalyzerOnly

\* Essentia raised and librosa's beat_track measured tempo
FallbackLibrosa(tempo) ==
    /\ librosa_available
    /\ rhythm_data' = RhythmData(Bpm(tempo), "librosa_fallback")
    /\ AnalyzerOnly

\* Essentia raised and librosa raised as well
FallbackFailed ==
    /\ librosa_available
    /\ rhythm_data' = RhythmData(Bpm(DefaultBpm), "fallback_failed")
    /\ AnalyzerOnly

\* comprehensive_analysis, file after file
NextEssentia ==
    \/ \E bpm \in RawBpms : EssentiaRhythm(bpm)
    \/ FallbackUnavailable
    \/ \E tempo \in RawBpms : FallbackLibrosa(tempo)
    \/ FallbackFailed

SpecEssentia == InitEssentia /\ [][NextEssentia]_vars

(***************************************************************************)
(* POST /analyze-essentia (src/detect/music_api.py)                        *)
(***************************************************************************)

\* MAX_FILE_SIZE = 50 * 1024 * 1024, in bytes
MAX_FILE_SIZE == 50 * 1024 * 1024

\* sizes of the saved file: empty, and around the limit
FileSizes ==
    {0} \cup ((MAX_FILE_SIZE - MaxSizeMargin)..(MAX_FILE_SIZE + MaxSizeMargin))

\* what the try block can raise
HTTP413 == [kind |-> "raise", class |-> "HTTPException", status_code |-> 413]
OSError == [kind |-> "raise", class |-> "OSError", status_code |-> 0]
AnalysisError ==
    [kind |-> "raise", class |-> "RuntimeError", status_code |-> 0]
Returned200 == [kind |-> "return", class |-> "none", status_code |-> 200]

\* the classes `except Exception` catches: HTTPException derives from it
IsException(class) == class \in {"HTTPException", "OSError", "RuntimeError"}

\* lines 304-329: save the file, check its size, analyse it
TryBody(save_ok, file_size, analysis_ok) ==
    IF ~save_ok THEN OSError
    ELSE IF file_size > MAX_FILE_SIZE THEN HTTP413
    ELSE IF ~analysis_ok THEN AnalysisError
    ELSE Returned200

\* lines 331-334: every Exception leaves the handler as HTTPException(500)
ExceptClause(outcome) ==
    IF outcome.kind = "raise" /\ IsException(outcome.class)
    THEN [kind |-> "raise", class |-> "HTTPException", status_code |-> 500]
    ELSE outcome

\* the answer to one request
Response(status_code, saved, file_size, analysed, temp_file) ==
    [kind |-> "response", status_code |-> status_code, saved |-> saved,
     file_size |-> file_size, analysed |-> analysed, temp_file |-> temp_file]

EndpointOnly ==
    UNCHANGED <<feature_history, onset_strengths, bpm_estimate, has_valid_bpm,
                current_key, beat_result, key_result, ticks, changes,
                loop_vars, api_vars, rhythm_data, librosa_available,
                essentia_available>>

\* lines 292-293: the engine is not installed
EssentiaUnavailable ==
    /\ ~essentia_available
    /\ essentia_request' = Response(503, FALSE, 0, FALSE, FALSE)
    /\ EndpointOnly

\* lines 295-296: the file name has none of the supported extensions
EssentiaBadExtension ==
    /\ essentia_available
    /\ essentia_request' = Response(400, FALSE, 0, FALSE, FALSE)
    /\ EndpointOnly

\* lines 298-342: the file is saved, measured, analysed and removed;
\* created tells whether a failed save left a partial file, cleanup_ok
\* whether os.remove in the finally block succeeds
AnalyzeWithEssentia(save_ok, created, file_size, analysis_ok, cleanup_ok) ==
    /\ essentia_available
    /\ save_ok => created
    /\ \E outcome \in {TryBody(save_ok, file_size, analysis_ok)} :
           essentia_request' =
               Response(ExceptClause(outcome).status_code, save_ok,
                        IF save_ok THEN file_size ELSE 0,
                        outcome \in {AnalysisError, Returned200},
                        created /\ ~cleanup_ok)
    /\ EndpointOnly

InitEndpoint ==
    /\ feature_history = <<>>
    /\ onset_strengths = <<>>
    /\ bpm_estimate = Bpm(DefaultBpm)
    /\ has_valid_bpm = TRUE
    /\ current_key = NoKey
    /\ beat_result = NoBeat
    /\ key_result = NoKey
    /\ ticks = 0
    /\ changes = 0
    /\ pc = "idle"
    /\ frame = NoFrame
    /\ analysis_results = NoTasks
    /\ uploads = {}
    /\ worker = [t \in TaskIds |-> "unborn"]
    /\ rhythm_data = NoRhythm
    /\ librosa_available = TRUE
    /\ essentia_available \in BOOLEAN
    /\ essentia_request = NoRequest

NextEndpoint ==
    \/ EssentiaUnavailable
    \/ EssentiaBadExtension
    \/ \E save_ok \in BOOLEAN, created \in BOOLEAN, file_size \in FileSizes,
          analysis_ok \in BOOLEAN, cleanup_ok \in BOOLEAN :
           AnalyzeWithEssentia(save_ok, created, file_size, analysis_ok,
                               cleanup_ok)

SpecEndpoint == InitEndpoint /\ [][NextEndpoint]_vars

(***************************************************************************)
(* Properties                                                              *)
(***************************************************************************)
\* a bpm n/d lies in [60, 200]
InPublishedRange(bpm) == 60 * bpm.d <= bpm.n /\ bpm.n <= 200 * bpm.d

\* the tempo 60 * 43 / avg_interval of a list of at least two peaks lies
\* outside [60, 200]; the gaps sum to last - first
TempoOutOfRange(peaks) ==
    LET gaps == Len(peaks) - 1
        span == peaks[Len(peaks)] - peaks[1]
    IN  2580 * gaps < 60 * span \/ 2580 * gaps > 200 * span

\* C1: after T ingested frames the feature history holds min(100, T) frames
\* and the onset history min(50, T) samples
C1_HistoryLengths ==
    /\ Len(feature_history) = (IF ticks < 100 THEN ticks ELSE 100)
    /\ Len(onset_strengths) = (IF ticks < 50 THEN ticks ELSE 50)

C1_Witness ==
    /\ ticks > 100
    /\ Len(feature_history) = 100
    /\ Len(onset_strengths) = 50

\* C2: the sticky bpm_estimate and the bpm of every returned BeatEstimate lie
\* in [60, 200]
C2_BpmInRange ==
    /\ InPublishedRange(bpm_estimate)
    /\ beat_result.kind = "estimate" => InPublishedRange(beat_result.bpm)

\* a tempo was adopted earlier and the tempo computed now is out of range
C2_Witness ==
    /\ bpm_estimate # Bpm(120)
    /\ Len(FindPeaks(onset_strengths)) > 1
    /\ TempoOutOfRange(FindPeaks(onset_strengths))
    /\ beat_result.kind = "estimate"
    /\ beat_result.bpm = bpm_estimate

\* C3: the onset sample of a tick is the spectral flux between the frame
\* stored before it and the new frame, so that 5 flat frames, one frame with a
\* spike at index 0 and 5 more flat frames record exactly one non-zero sample,
\* the spike's delta
C3_OnsetFromPreviousFrame ==
    /\ (ticks >= 2 /\ ticks <= 50) =>
           LET n == Len(feature_history)
               prev == feature_history[n - 1].magnitude
               cur == feature_history[n].magnitude
           IN  onset_strengths[Len(onset_strengths)] =
                   SumSeq([i \in 1..Len(cur) |->
                              IF cur[i] > prev[i] THEN cur[i] - prev[i] ELSE 0])
    /\ (/\ ticks = 11
        /\ \A i \in 1..11 : feature_history[i].magnitude =
               (IF i = 6 THEN SpikeMagnitude ELSE FlatMagnitude))
       => onset_strengths = <<0, 0, 0, 0, 0, 2, 0, 0, 0, 0, 0>>

\* C4: a tick that leaves fewer than 3 onset samples returns the cold-start
\* hold (the sticky bpm, 120 on a fresh engine, confidence 0.1, beat position
\* 0, measure position 1) and leaves the sticky bpm unchanged
C4_ColdStartHold ==
    [][Len(onset_strengths') < 3 =>
          /\ beat_result' = [kind |-> "estimate", bpm |-> bpm_estimate,
                             confidence |-> 1, beat_position |-> 0,
                             measure_position |-> 1]
          /\ bpm_estimate = Bpm(120)
          /\ bpm_estimate' = bpm_estimate]_vars

C4_Witness ==
    /\ Len(onset_strengths) = 2
    /\ beat_result.kind = "estimate"
    /\ beat_result.confidence = 1
    /\ beat_result.bpm = Bpm(120)

\* C5: a tick with fewer than 2 peaks, or with a computed tempo outside
\* [60, 200], reports the sticky bpm held before the tick with confidence 0.1
\* and leaves the sticky bpm unchanged
C5_HoldKeepsSticky ==
    [][(/\ ticks' = ticks + 1
        /\ LET peaks == FindPeaks(onset_strengths')
           IN  Len(peaks) < 2 \/ TempoOutOfRange(peaks))
       => /\ beat_result'.kind = "estimate"
          /\ beat_result'.bpm = bpm_estimate
          /\ beat_result'.confidence = 1
          /\ bpm_estimate' = bpm_estimate]_vars

\* exactly two peaks, 10 ticks apart (258 bpm): the sticky 120 is reported
C5_Witness ==
    /\ Len(FindPeaks(onset_strengths)) = 2
    /\ FindPeaks(onset_strengths)[2] - FindPeaks(onset_strengths)[1] = 10
    /\ beat_result.kind = "estimate"
    /\ beat_result.bpm = Bpm(120)
    /\ beat_result.confidence = 1
    /\ bpm_estimate = Bpm(120)

\* a key confidence score * mul.n / mul.d is at least n/d
ConfidenceGeq(c, n, d) == ScoreGeq(c.score, n * c.mul.d, d * c.mul.n)

\* a key confidence score * mul.n / mul.d is at most n/d
ConfidenceLeq(c, n, d) == ~ScoreGt(c.score, n * c.mul.d, d * c.mul.n)

\* every stored frame carries the normalized major profile as its chroma
AllMajorProfile ==
    /\ feature_history # <<>>
    /\ \A i \in 1..Len(feature_history) : feature_history[i].chroma = MajorChroma

\* C6: frames whose chroma is the normalized major profile yield, on every
\* tick from the first to the 20th, root 0, mode major, confidence >= 0.05
C6_MajorProfileKey ==
    (AllMajorProfile /\ ticks <= 20) =>
        /\ key_result.kind = "key"
        /\ key_result.root = 0
        /\ key_result.mode = "major"
        /\ ConfidenceGeq(key_result.confidence, 1, 20)

C6_Witness ==
    /\ AllMajorProfile
    /\ ticks = 20
    /\ key_result.kind = "key"
    /\ key_result.root = 0
    /\ key_result.mode = "major"

\* C7: on valid frames the key estimator never raises, and a key it returns,
\* through either acceptance branch, has its confidence in [0, 1]
C7_KeyConfidenceBounded ==
    /\ key_result.kind \in {"none", "key"}
    /\ key_result.kind = "key" =>
           /\ ConfidenceGeq(key_result.confidence, 0, 1)
           /\ ConfidenceLeq(key_result.confidence, 1, 1)

\* a key published through the relaxed branch
C7_Witness ==
    /\ key_result.kind = "key"
    /\ key_result.confidence.mul = [n |-> 4, d |-> 5]
    /\ Len(feature_history) > 15

\* the best hypothesis for the stored feature history
BestOfHistory ==
    CHOOSE b \in { BestKey(key_scores) :
                       key_scores \in { KeyScores(weighted_chroma) :
                           weighted_chroma \in {WeightedChroma(feature_history)} } } : TRUE

PublishedAs(best, mul_n, mul_d) ==
    key_result = [kind |-> "key", root |-> best.root, mode |-> best.mode,
                  confidence |-> [score |-> best.score,
                                  mul |-> [n |-> mul_n, d |-> mul_d]]]

\* C8 as claimed: best.score >= 0.05 publishes with confidence best.score;
\* otherwise more than 15 frames and best.score >= 0.025 publish with
\* confidence best.score * 0.8; otherwise none
C8_AcceptanceAsClaimed ==
    feature_history # <<>> =>
        \A best \in {BestOfHistory} :
            IF ScoreGeq(best.score, 1, 20) THEN PublishedAs(best, 1, 1)
            ELSE IF Len(feature_history) > 15 /\ ScoreGeq(best.score, 1, 40)
                 THEN PublishedAs(best, 4, 5)
                 ELSE key_result = [kind |-> "none"]

\* C8 amended: the relaxed branch needs best.score > 0.025, strictly
C8_AcceptanceStrict ==
    feature_history # <<>> =>
        \A best \in {BestOfHistory} :
            IF ScoreGeq(best.score, 1, 20) THEN PublishedAs(best, 1, 1)
            ELSE IF Len(feature_history) > 15 /\ ScoreGt(best.score, 1, 40)
                 THEN PublishedAs(best, 4, 5)
                 ELSE key_result = [kind |-> "none"]

\* more than 15 frames, a best score of exactly 0.025, and no key
C8_Witness ==
    /\ Len(feature_history) > 15
    /\ key_result = [kind |-> "none"]
    /\ \E best \in {BestOfHistory} :
           ScoreGeq(best.score, 1, 40) /\ ~ScoreGt(best.score, 1, 40)

\* the last two ingested frames have the same magnitude vector
LastTwoMagnitudesEqual ==
    /\ Len(feature_history) >= 2
    /\ feature_history[Len(feature_history)].magnitude =
           feature_history[Len(feature_history) - 1].magnitude

\* C9: when two consecutive ingested frames have identical magnitude
\* vectors, the onset sample recorded for the second is 0
C9_IdenticalFramesNoOnset ==
    LastTwoMagnitudesEqual => onset_strengths[Len(onset_strengths)] = 0

C9_Witness ==
    /\ LastTwoMagnitudesEqual
    /\ feature_history[Len(feature_history)].magnitude = SpikeMagnitude
    /\ feature_history[1].magnitude = FlatMagnitude
    /\ onset_strengths[Len(onset_strengths)] = 0

\* C10: every call of analyze_beat returns a BeatEstimate, whatever the onset
\* history holds; it never raises
C10_BeatAlwaysReturned ==
    ticks > 0 => beat_result.kind = "estimate"

\* a single peak in the onset history, a BeatEstimate, and no key
C10_Witness ==
    /\ Len(FindPeaks(onset_strengths)) = 1
    /\ beat_result.kind = "estimate"
    /\ feature_history # <<>>
    /\ analyze_key(feature_history) = [kind |-> "none"]
    /\ key_result = [kind |-> "none"]

\* a frame has 12 chroma values, none of them negative
WellFormed(features) ==
    /\ Len(features.chroma) = 12
    /\ \A p \in 1..Len(features.chroma) : features.chroma[p] >= 0

\* C11: a malformed frame (chroma length other than 12, or a negative value)
\* is rejected and its tick leaves the feature history, the onset history and
\* the sticky bpm as they were: the feature history never holds a malformed
\* frame
C11_MalformedRejected ==
    \A i \in 1..Len(feature_history) : WellFormed(feature_history[i])

\* C12: a thread reading the engine's fields at any point of a tick sees the
\* complete state before the tick or the complete state after it: in every
\* state the onset history is as long as the feature history (up to its
\* capacity) and the key estimate is the one of the stored feature history
C12_NoPartialState ==
    /\ Len(onset_strengths) = Min2(OnsetCap, Len(feature_history))
    /\ feature_history # <<>> => key_result = analyze_key(feature_history)

\* the task has reached completed or failed
Settled(t) == analysis_results[t].status \in {"completed", "failed"}

\* C13 as claimed: every task created by an accepted upload eventually
\* reaches status completed or failed
C13_TaskSettles ==
    \A t \in TaskIds : (worker[t] = "queued") ~> Settled(t)

\* C13 amended: every task created by an accepted upload eventually reaches
\* status completed or failed, or is deleted; it never stays in processing
C13_TaskSettlesOrDeleted ==
    \A t \in TaskIds : (worker[t] = "queued") ~> (Settled(t) \/ ~HasTask(t))

\* a task whose analysis raised: failed, error recorded, file removed
C13_Witness ==
    \E t \in TaskIds :
        /\ worker[t] = "returned"
        /\ analysis_results[t].status = "failed"
        /\ analysis_results[t].error = "error"
        /\ t \notin uploads

\* C14: the bpm of the rhythm analysis returned by comprehensive_analysis
\* lies in [60, 200] for every outcome, the librosa fallback included
C14_EssentiaBpmInRange ==
    rhythm_data.kind = "result" => InPublishedRange(rhythm_data.bpm)

\* the 0-based indices track_beats treats as peaks
PeakSet(os) == { FindPeaks(os)[k] : k \in 1..Len(FindPeaks(os)) }

\* the 0-based indices from `first` on that are below len - 1, exceed both
\* neighbours and exceed 0.1
LocalMaxima(os, first) ==
    { i \in 0..(Len(os) - 1) :
        /\ first <= i
        /\ i < Len(os) - 1
        /\ os[i + 1] > os[i]
        /\ os[i + 1] > os[i + 2]
        /\ os[i + 1] > 1 }

\* C15 as claimed: index i is a peak if and only if 1 < i < len-1,
\* onset[i] > onset[i-1], onset[i] > onset[i+1] and onset[i] > 0.1; indices
\* 0, 1 and len-1 are never peaks
C15_PeaksAsClaimed ==
    Len(onset_strengths) >= 3 =>
        /\ PeakSet(onset_strengths) = LocalMaxima(onset_strengths, 2)
        /\ PeakSet(onset_strengths) \cap {0, 1, Len(onset_strengths) - 1} = {}

\* C15 amended: index i is a peak if and only if 0 < i < len-1,
\* onset[i] > onset[i-1], onset[i] > onset[i+1] and onset[i] > 0.1; indices
\* 0 and len-1 are never peaks and a plateau of equal values contains none
C15_PeaksFromIndexOne ==
    Len(onset_strengths) >= 3 =>
        /\ PeakSet(onset_strengths) = LocalMaxima(onset_strengths, 1)
        /\ PeakSet(onset_strengths) \cap {0, Len(onset_strengths) - 1} = {}
        /\ \A i \in PeakSet(onset_strengths) :
               onset_strengths[i + 1] # onset_strengths[i + 2]

\* a peak at index 1, and a local maximum at the floor 0.1 that is no peak
C15_Witness ==
    /\ onset_strengths = <<0, 2, 0, 1, 0>>
    /\ PeakSet(onset_strengths) = {1}
    /\ beat_result.kind = "estimate"

\* C16: with at least 2 peaks the computed tempo is 60 * 43 / avgInterval,
\* avgInterval being the mean of the gaps between consecutive peak indices,
\* which is (last peak - first peak) / (peakCount - 1); when that tempo lies
\* in [60, 200] the returned estimate carries it with confidence
\* min(1, peakCount / 10)
C16_TempoFromPeaks ==
    (ticks > 0 /\ Len(onset_strengths) >= 3) =>
        \A peaks \in {FindPeaks(onset_strengths)} :
            Len(peaks) >= 2 =>
                LET count == Len(peaks)
                    span == peaks[count] - peaks[1]
                    gaps == [k \in 1..(count - 1) |-> peaks[k + 1] - peaks[k]]
                IN  /\ SumSeq(gaps) = span
                    /\ (60 * span <= 60 * 43 * (count - 1)
                          /\ 60 * 43 * (count - 1) <= 200 * span)
                        => /\ beat_result.kind = "estimate"
                           /\ beat_result.bpm.n * span =
                                  60 * 43 * (count - 1) * beat_result.bpm.d
                           /\ beat_result.confidence =
                                  (IF count < 10 THEN count ELSE 10)

\* three peaks 13 ticks apart: 198.46 bpm with confidence 0.3
C16_Witness ==
    /\ Len(onset_strengths) >= 3
    /\ FindPeaks(onset_strengths) = <<1, 14, 27>>
    /\ beat_result.kind = "estimate"
    /\ beat_result.bpm = [n |-> 2580, d |-> 13]
    /\ beat_result.confidence = 3

\* C17: after any tick whose result has bpm > 0 and confidence > 0.01 the
\* sticky bpm_estimate equals that result's bpm; a hold tick (confidence 0.1)
\* reports the sticky value and leaves it in place, and the sticky value
\* changes only when a computed tempo replaces it
C17_AdoptedAndHeld ==
    [][ticks' = ticks + 1 =>
          /\ (beat_result'.bpm.n > 0 /\ beat_result'.confidence * 10 > 1)
                 => bpm_estimate' = beat_result'.bpm
          /\ beat_result'.confidence = 1
                 => (beat_result'.bpm = bpm_estimate /\ bpm_estimate' = bpm_estimate)
          /\ bpm_estimate' # bpm_estimate
                 => (beat_result'.confidence >= 2 /\ bpm_estimate' = beat_result'.bpm)
       ]_vars

\* a tempo of 2580/13 bpm adopted earlier and reported by a hold tick
C17_Witness ==
    /\ bpm_estimate = [n |-> 2580, d |-> 13]
    /\ beat_result.kind = "estimate"
    /\ beat_result.confidence = 1
    /\ beat_result.bpm = bpm_estimate
    /\ Len(FindPeaks(onset_strengths)) = 3

\* the last min(20, len) frames of a history, oldest first
LastFrames(fh) ==
    LET size == IF Len(fh) < 20 THEN Len(fh) ELSE 20
    IN  [i \in 1..size |-> fh[Len(fh) - size + i]]

\* the chroma of a window whose i-th frame (1-based, oldest first) weighs
\* i / windowSize, divided by the sum of the weights
WindowChroma(window) ==
    LET size == Len(window)
    IN  [num |-> [p \in 1..12 |->
                     SumSeq([i \in 1..size |-> i * window[i].chroma[p]])],
         den |-> ChromaDen * ((size * (size + 1)) \div 2)]

\* the key estimate as a function of the window and of whether the history
\* is longer than 15 frames
WindowKey(window, long) ==
    CHOOSE r \in { IF ScoreGeq(best.score, 1, 20) THEN KeyInfo(best, 1, 1)
                   ELSE IF long /\ ScoreGt(best.score, 1, 40)
                        THEN KeyInfo(best, 4, 5)
                        ELSE [kind |-> "none"] :
                       best \in { BestKey(key_scores) :
                           key_scores \in { KeyScores(chroma) :
                               chroma \in {WindowChroma(window)} } } } : TRUE

\* C19: the key estimate of a tick depends only on the most recent
\* min(20, len) frames, weighted (i+1)/windowSize from oldest to newest, and
\* on whether the history is longer than 15 frames; frames older than the
\* window do not matter
C19_KeyFromWindow ==
    feature_history # <<>> =>
        key_result = WindowKey(LastFrames(feature_history),
                               Len(feature_history) > 15)

\* 21 frames, the oldest one silent and outside the window, the 20 of the
\* window carrying the major profile: the key of the window alone
C19_Witness ==
    /\ Len(feature_history) = 21
    /\ feature_history[1] = SilentFlat
    /\ \A i \in 2..21 : feature_history[i] = MajorFlat
    /\ key_result.kind = "key"
    /\ key_result = WindowKey([i \in 1..20 |-> MajorFlat], TRUE)

\* every frame of the key window is silent
SilentWindow ==
    /\ feature_history # <<>>
    /\ \A i \in 1..Len(LastFrames(feature_history)) :
           \A p \in 1..12 : LastFrames(feature_history)[i].chroma[p] = 0

\* C20: when every frame of the key window is silent, at any history length,
\* all 24 hypotheses score 0 and the estimator returns none; neither the
\* weight normalization nor the profile-sum normalization divides by zero
C20_SilentWindowNoKey ==
    SilentWindow =>
        /\ key_result = [kind |-> "none"]
        /\ \A key_scores \in {KeyScores(WeightedChroma(feature_history))} :
               \A k \in 1..24 : key_scores[k].score.ip = 0
                                  /\ key_scores[k].score.fn = 0
        /\ TotalWeight(RecentFeatures(feature_history)).n > 0
        /\ SumSeq(MajorProfile) > 0
        /\ SumSeq(MinorProfile) > 0

\* a silent window of 20 frames behind a frame that is not silent
C20_Witness ==
    /\ Len(feature_history) = 21
    /\ feature_history[1] = MajorFlat
    /\ SilentWindow
    /\ key_result = [kind |-> "none"]

\* the best hypothesis of the stored history passes neither acceptance test
AcceptanceFails ==
    \A best \in {BestOfHistory} :
        /\ ~ScoreGeq(best.score, 1, 20)
        /\ ~(Len(feature_history) > 15 /\ ScoreGt(best.score, 1, 40))

\* C21: a key estimate is never carried over: a tick whose evaluation fails
\* the acceptance policy reports undetermined even when the previous tick
\* published a key, and no tick writes current_key, which stays null
C21_NoCarryOver ==
    [][ticks' = ticks + 1 =>
          /\ AcceptanceFails' => key_result' = [kind |-> "none"]
          /\ current_key = [kind |-> "none"]
          /\ current_key' = current_key]_vars

\* no key after a silent frame, while the history without that frame yields
\* a key
C21_Witness ==
    /\ Len(feature_history) >= 2
    /\ key_result = [kind |-> "none"]
    /\ current_key = [kind |-> "none"]
    /\ analyze_key(SubSeq(feature_history, 1, Len(feature_history) - 1)).kind = "key"

\* `after` is `before` with one element appended at the end, the oldest
\* element removed first when `before` was at its capacity
FifoStep(before, after, capacity) ==
    /\ after # <<>>
    /\ Len(after) <= capacity
    /\ after = Append(IF Len(before) >= capacity THEN Tail(before) ELSE before,
                      after[Len(after)])

\* C22: both histories are strict FIFO: every step that stores a frame or an
\* onset sample appends it at the end, evicts only the oldest element, and
\* only when the capacity (100 frames, 50 samples) is exceeded, so that each
\* history is the last min(capacity, T) elements in arrival order.  (A direct
\* analyze_beat call, made here before the capacity is reached, stores an
\* onset sample and no frame.)
C22_StrictFifo ==
    [][/\ ticks' = ticks + 1 =>
             FifoStep(onset_strengths, onset_strengths', 50)
       /\ (  (feature_history' = feature_history /\ Len(feature_history) < 100)
          \/ FifoStep(feature_history, feature_history', 100))]_vars

\* 101 iterations: the silent first frame was evicted from the feature
\* history, and the first 51 onset samples from the onset history
C22_Witness ==
    /\ ticks = 101
    /\ changes = 1
    /\ Len(feature_history) = 100
    /\ \A i \in 1..100 : feature_history[i] = UniformSpike
    /\ Len(onset_strengths) = 50

\* C23: every BeatEstimate returned, for any non-negative timestamp and any
\* onset history, has its confidence in [0, 1], its beat position in [0, 1)
\* and its measure position in {1, 2, 3, 4}
C23_BeatFieldsInRange ==
    ticks > 0 =>
        /\ beat_result.kind = "estimate"
        /\ 0 <= beat_result.confidence /\ beat_result.confidence <= 10
        /\ 0 <= beat_result.beat_position /\ beat_result.beat_position < 4
        /\ beat_result.measure_position \in {1, 2, 3, 4}

\* a tempo computed from two peaks on a frame stamped 7.75 s
C23_Witness ==
    /\ Len(FindPeaks(onset_strengths)) = 2
    /\ beat_result.kind = "estimate"
    /\ beat_result.confidence = 2
    /\ beat_result.beat_position = 3
    /\ beat_result.measure_position = 4

\* C24: a file sent to /analyze-essentia whose saved size exceeds
\* MAX_FILE_SIZE is answered with status 413 and is not analysed
C24_OversizeAnswered413 ==
    (/\ essentia_request.kind = "response"
     /\ essentia_request.saved
     /\ essentia_request.file_size > MAX_FILE_SIZE)
        => /\ essentia_request.status_code = 413
           /\ ~essentia_request.analysed

\* C25: every estimate of the tracker has confidence exactly 0.1 or at
\* least 0.2, so after each call with 3 or more onset samples the primary
\* adoption test has passed: the sticky bpm_estimate equals the bpm returned
\* and the relaxed adoption branch was not the one taken
C25_PrimaryAdoptionOnly ==
    (ticks > 0 /\ Len(onset_strengths) >= 3) =>
        /\ beat_result.kind = "estimate"
        /\ beat_result.confidence = 1 \/ beat_result.confidence >= 2
        /\ AdoptionBranch(beat_result, Len(onset_strengths)) = 1
        /\ bpm_estimate = beat_result.bpm

\* a tempo computed from peaks replaces the default with more than 10 samples
C25_Witness ==
    /\ Len(onset_strengths) > RelaxedOnsetLen
    /\ beat_result.kind = "estimate"
    /\ beat_result.confidence >= 2
    /\ bpm_estimate = beat_result.bpm
    /\ bpm_estimate # Bpm(DefaultBpm)

\* the chroma is non-negative and sums to 1
NormalizedChroma(chroma) ==
    /\ Len(chroma) = 12
    /\ \A p \in 1..12 : chroma[p] >= 0
    /\ SumSeq(chroma) = ChromaDen

\* every frame of the key window has a normalized chroma
NormalizedWindow ==
    /\ feature_history # <<>>
    /\ \A i \in 1..Len(LastFrames(feature_history)) :
           NormalizedChroma(LastFrames(feature_history)[i].chroma)

\* C26: when every frame of the key window has non-negative chroma summing
\* to 1, the best score is at least 1/12 and the key is published through
\* the primary branch at every history length; no key, or a key of the
\* relaxed (0.8) branch, happens only with a window that has a silent or
\* sub-normalized frame
C26_NormalizedWindowPrimary ==
    (ticks > 0 /\ NormalizedWindow) =>
        /\ key_result.kind = "key"
        /\ key_result.confidence.mul = [n |-> 1, d |-> 1]
        /\ ScoreGeq(key_result.confidence.score, 1, 12)

\* a window of 16 normalized frames, uniform ones then major-profile ones
C26_Witness ==
    /\ Len(feature_history) = 16
    /\ feature_history[1] = UniformFlat
    /\ feature_history[16] = MajorFlat
    /\ NormalizedWindow
    /\ key_result.kind = "key"
    /\ key_result.confidence.mul = [n |-> 1, d |-> 1]

\* every frame ingested so far carries the major profile with tonic r
MajorSession(r) ==
    /\ feature_history # <<>>
    /\ \A i \in 1..Len(feature_history) :
           feature_history[i] = TransposedMajorFlat(r)

\* C27: key detection is transposition-equivariant: frames whose chroma is
\* the normalized major profile rotated to tonic r yield a key with root r
\* and mode major, for every pitch class r, as they do for r = 0
C27_TranspositionEquivariant ==
    \A r \in PitchClasses :
        (ticks > 0 /\ MajorSession(r)) =>
            /\ key_result.kind = "key"
            /\ key_result.root = r
            /\ key_result.mode = "major"

\* the statuses a record may take and the steps between them
TaskStatuses == {"processing", "completed", "failed"}
StatusStep(before, after) ==
    \/ after = before
    \/ before = "processing" /\ after \in {"completed", "failed"}

\* C28: every task record has status processing, completed or failed; the
\* status only goes from processing to completed or to failed and the two
\* are never left; the progress never decreases; and a completed record has
\* progress 100, a result and no error
C28_TaskLifecycle ==
    [][\A t \in TaskIds :
           HasTask(t)' =>
               /\ analysis_results'[t].status \in TaskStatuses
               /\ analysis_results'[t].status = "completed" =>
                      /\ analysis_results'[t].progress = 100
                      /\ analysis_results'[t].result # "none"
                      /\ analysis_results'[t].error = "none"
               /\ HasTask(t) =>
                      /\ StatusStep(analysis_results[t].status,
                                    analysis_results'[t].status)
                      /\ analysis_results'[t].progress
                             >= analysis_results[t].progress]_vars

\* C29: deleting a task while its analysis is running is safe under every
\* interleaving: the worker never leaves through an unhandled exception, and
\* the deleted record is never re-created or updated afterwards
C29_DeleteWhileRunningSafe ==
    [][\A t \in TaskIds :
           /\ worker'[t] # "raised"
           /\ (worker[t] \notin {"unborn", "unsaved"} /\ ~HasTask(t))
                  => ~HasTask(t)']_vars

\* C30: no file written by /upload-audio is orphaned: every file in the
\* upload directory belongs to a record whose status is processing or
\* completed; an upload that fails while the file is saved leaves no file
\* and no record; and a task that has failed has its file removed
C30_NoOrphanFiles ==
    \A t \in TaskIds :
        /\ t \in uploads =>
               /\ HasTask(t)
               /\ analysis_results[t].status \in {"processing", "completed"}
        /\ worker[t] = "unsaved" => (t \notin uploads /\ ~HasTask(t))
        /\ (worker[t] = "returned" /\ HasTask(t)
                /\ analysis_results[t].status = "failed") => t \notin uploads

====
